---- MODULE Spec2Model ----
(***************************************************************************)
(* The welcome-message endpoint of backend/api.                            *)
(*                                                                         *)
(*   urls.py   urlpatterns = [path("welcome-message/",                     *)
(*                                 views.welcome_message, ...)]            *)
(*   views.py  @api_view(["GET"])                                          *)
(*             def welcome_message(request):                               *)
(*                 return Response({"message": "Hello World!"})            *)
(*                                                                         *)
(* The two files consist of calls into django.urls and rest_framework, so  *)
(* the operators below give those calls the meaning the libraries give     *)
(* them when no project setting overrides rest_framework's DEFAULTS:       *)
(*   path(route, view)      django.urls.resolvers.RoutePattern.match       *)
(*   api_view([...])        rest_framework.decorators.api_view and         *)
(*                          rest_framework.views.APIView.dispatch          *)
(*   Response(data)         rest_framework.response.Response and the       *)
(*                          renderers of rest_framework.renderers          *)
(* Project middleware and settings are not part of the two files and are   *)
(* not modelled.                                                           *)
(***************************************************************************)
EXTENDS Integers, Sequences, FiniteSets, TLC

VARIABLES
    urlpatterns,   \* urls.py: the module-level routing table
    sideEffects,   \* log records and external calls made while serving
    pc,            \* pc[w]: where worker w is in serving its request
    req,           \* req[w]: the request worker w is serving
    neg,           \* neg[w]: request.accepted_renderer / accepted_media_type
    resp,          \* resp[w]: the response worker w produced
    snap           \* an earlier exchange (request, response), kept for comparison

vars == <<urlpatterns, sideEffects, pc, req, neg, resp, snap>>

\* Number of worker threads/processes of the hosting server.
NumWorkers == 2

\* Number of distinct values the random CSRF mask can take.
NumMasks == 2

Workers == 1..NumWorkers

Masks == 1..NumMasks

-----------------------------------------------------------------------------
(* Requests *)

\* A path is the request path after the leading slash, split on "/":
\* "welcome-message/" is <<"welcome-message", "">>.
WelcomePath == <<"welcome-message", "">>

NoSlashPath == <<"welcome-message">>

UnknownPath == <<"unknown-path", "">>

Paths == {WelcomePath, NoSlashPath, UnknownPath}

Methods == {"GET", "POST", "DELETE", "HEAD", "OPTIONS"}

\* A media range of an Accept header; indent = 0 stands for "no indent parameter".
MediaType(main, sub, indent) == [main |-> main, sub |-> sub, indent |-> indent]

AnyType == MediaType("*", "*", 0)

JsonType == MediaType("application", "json", 0)

JsonIndentType == MediaType("application", "json", 4)

HtmlType == MediaType("text", "html", 0)

XmlType == MediaType("application", "xml", 0)

\* Accept headers, as the list header.split(",") gives; <<>> is "no Accept header".
Accepts == {<<>>, <<JsonIndentType>>, <<HtmlType, AnyType>>, <<XmlType>>}

\* The "format" query parameter; "" is "not given".
Formats == {"", "api", "xml"}

\* The Authorization header; "" is "not given", "Basic !" is a Basic header
\* whose credentials do not decode.
Authorizations == {"", "Basic !"}

\* The parts of a request nothing reads: another query parameter, another
\* header, a request body.
Extras == {"none", "query", "header", "body"}

Requests ==
    [method : Methods, path : Paths, accept : Accepts, format : Formats,
     authorization : Authorizations, extra : Extras]

\* The requests of the concurrent specification.
ConcRequests ==
    [method : {"GET", "POST", "OPTIONS"}, path : {WelcomePath, UnknownPath},
     accept : {<<>>, <<HtmlType, AnyType>>}, format : {""},
     authorization : {""}, extra : {"none"}]

NoRequest ==
    [method |-> "", path |-> <<>>, accept |-> <<>>, format |-> "",
     authorization |-> "", extra |-> "none"]

-----------------------------------------------------------------------------
(* Response data and its renderings *)

\* A JSON value of a response: a string or a list of strings.
Str(s) == [kind |-> "str", s |-> s, items |-> <<>>]

List(items) == [kind |-> "list", s |-> "", items |-> items]

\* A dict is a sequence of members, in insertion order.
Member(k, v) == [key |-> k, value |-> v]

\* The characters of a body, in tokens.
Punct(c) == [t |-> "punct", v |-> c]

StrTok(s) == [t |-> "str", v |-> s]

Ws(c) == [t |-> "ws", v |-> c]

Markup(c) == [t |-> "html", v |-> c]

RECURSIVE Flatten(_)
Flatten(seqs) ==
    IF seqs = <<>> THEN <<>> ELSE Head(seqs) \o Flatten(Tail(seqs))

\* json.dumps' newline and indentation before an item at nesting depth d.
NewLine(indent, d) ==
    IF indent = 0 THEN <<>>
    ELSE <<Ws("\n")>> \o [i \in 1..d |-> Ws("    ")]

\* json.dumps' item separator.
ItemSep(i) == IF i = 1 THEN <<>> ELSE <<Punct(",")>>

DumpList(items, indent, d) ==
    IF items = <<>> THEN <<Punct("["), Punct("]")>>
    ELSE <<Punct("[")>>
         \o Flatten([i \in 1..Len(items) |->
                ItemSep(i) \o NewLine(indent, d + 1) \o <<StrTok(items[i])>>])
         \o NewLine(indent, d) \o <<Punct("]")>>

DumpValue(v, indent, d) ==
    IF v.kind = "str" THEN <<StrTok(v.s)>> ELSE DumpList(v.items, indent, d)

\* json.dumps' key separator: ":" compact, ": " when indenting.
KeySep(indent) == IF indent = 0 THEN <<Punct(":")>> ELSE <<Punct(":"), Ws(" ")>>

DumpDict(data, indent) ==
    IF data = <<>> THEN <<Punct("{"), Punct("}")>>
    ELSE <<Punct("{")>>
         \o Flatten([i \in 1..Len(data) |->
                ItemSep(i) \o NewLine(indent, 1) \o <<StrTok(data[i].key)>>
                \o KeySep(indent) \o DumpValue(data[i].value, indent, 1)])
         \o NewLine(indent, 0) \o <<Punct("}")>>

-----------------------------------------------------------------------------
(* Content negotiation: rest_framework.negotiation.DefaultContentNegotiation *)

JSONRenderer ==
    [name |-> "JSONRenderer", media_type |-> JsonType, format |-> "json",
     content_type |-> "application/json"]

BrowsableAPIRenderer ==
    [name |-> "BrowsableAPIRenderer", media_type |-> HtmlType, format |-> "api",
     content_type |-> "text/html; charset=utf-8"]

\* The view's renderers, tried in this order.
renderer_classes_browsable_first == <<BrowsableAPIRenderer, JSONRenderer>>

renderer_classes == <<JSONRenderer, BrowsableAPIRenderer>>

\* _MediaType.precedence
precedence(mt) ==
    IF mt.main = "*" THEN 0
    ELSE IF mt.sub = "*" THEN 1
    ELSE IF mt.indent # 0 THEN 3
    ELSE 2

\* media_type_matches(renderer.media_type, accepted): a renderer's media type
\* has no parameters, so only the type and the subtype are compared.
media_type_matches(mt, other) ==
    /\ (mt.sub = "*" \/ other.sub = "*" \/ other.sub = mt.sub)
    /\ (mt.main = "*" \/ other.main = "*" \/ other.main = mt.main)

filter_renderers(renderers, format) ==
    SelectSeq(renderers, LAMBDA r : r.format = format)

get_accept_list(request) ==
    IF request.accept = <<>> THEN <<AnyType>> ELSE request.accept

NoNegotiation == [renderer |-> "", media_type |-> AnyType]

\* select_renderer: "ok" with the renderer and the accepted media type,
\* "Http404" when the format override names no renderer, "NotAcceptable" when
\* no renderer matches the Accept header.
select_renderer(request, all_renderers) ==
    LET renderers == IF request.format # ""
                     THEN filter_renderers(all_renderers, request.format)
                     ELSE all_renderers
        accepts   == get_accept_list(request)
        Hits(p)   == {h \in (1..Len(renderers)) \X (1..Len(accepts)) :
                         /\ precedence(accepts[h[2]]) = p
                         /\ media_type_matches(renderers[h[1]].media_type,
                                               accepts[h[2]])}
        AllHits   == UNION {Hits(p) : p \in 0..3}
    IN  IF renderers = <<>>
        THEN [outcome |-> "Http404", neg |-> NoNegotiation]
        ELSE IF AllHits = {}
        THEN [outcome |-> "NotAcceptable", neg |-> NoNegotiation]
        ELSE LET best == CHOOSE p \in 0..3 :
                            Hits(p) # {} /\ \A q \in 0..3 : Hits(q) # {} => q <= p
                 hit  == CHOOSE h \in Hits(best) :
                            \A g \in Hits(best) :
                                h[1] < g[1] \/ (h[1] = g[1] /\ h[2] <= g[2])
                 rnd  == renderers[hit[1]]
                 acc  == accepts[hit[2]]
                 full == IF precedence(rnd.media_type) > precedence(acc)
                         THEN MediaType(rnd.media_type.main, rnd.media_type.sub,
                                        acc.indent)
                         ELSE acc
             IN  [outcome |-> "ok",
                  neg |-> [renderer |-> rnd.name, media_type |-> full]]

\* finalize_response: a request whose negotiation failed is rendered by the
\* first renderer (perform_content_negotiation(request, force=True)).
forced_negotiation(renderers) ==
    [renderer |-> renderers[1].name, media_type |-> renderers[1].media_type]

-----------------------------------------------------------------------------
(* Rendering: rest_framework.renderers *)

Min(a, b) == IF a < b THEN a ELSE b

\* JSONRenderer.get_indent: the accepted media type's indent, at most 8.
get_indent(media_type) == Min(media_type.indent, 8)

JSONRenderer_render(data, media_type) == DumpDict(data, get_indent(media_type))

\* BrowsableAPIRenderer.render: the page of rest_framework/base.html, which
\* embeds the data rendered as indented JSON and, in its drf_csrf block,
\* csrf_token: django.middleware.csrf.get_token(request), masked afresh with a
\* random mask on every call.
BrowsableAPIRenderer_render(data, context) ==
    <<Markup("<!DOCTYPE html>"), Markup("csrfToken"),
      StrTok(ToString(context.mask))>>
    \o DumpDict(data, 4) \o <<Markup("</html>")>>

render_nonce(renderer, data, media_type, context) ==
    IF renderer = JSONRenderer.name
    THEN JSONRenderer_render(data, media_type)
         \o <<StrTok(ToString(context.mask))>>
    ELSE BrowsableAPIRenderer_render(data, context)

\* response.rendered_content: accepted_renderer.render(data, media_type, context)
render(renderer, data, media_type, context) ==
    IF renderer = JSONRenderer.name
    THEN JSONRenderer_render(data, media_type)
    ELSE BrowsableAPIRenderer_render(data, context)

content_type_of(renderer) ==
    IF renderer = JSONRenderer.name THEN JSONRenderer.content_type
    ELSE BrowsableAPIRenderer.content_type

\* Response(data) of views.py line 8: status defaults to 200.
Response(data, status) == [data |-> data, status |-> status]

\* A response on the wire.
Rendered(response, n, context) ==
    [status |-> response.status,
     content_type |-> content_type_of(n.renderer),
     body |-> render(n.renderer, response.data, n.media_type, context)]

NoResponse == [status |-> 0, content_type |-> "", body |-> <<>>]

-----------------------------------------------------------------------------
(* views.py *)

WelcomeData_extra_key ==
    <<Member("message", Str("Hello World!")), Member("status", Str("ok"))>>

\* The dict literal of views.py line 8.
WelcomeData == <<Member("message", Str("Hello World!"))>>

\* The docstring of views.py line 7.
WelcomeDoc == "Return a welcome message for the frontend to display."

welcome_message_logging(request) ==
    [response |-> Response(WelcomeData, 200), effects |-> <<"log">>]

welcome_message_personalised(request) ==
    [response |->
        Response(<<Member("message", Str(IF request.extra = "query"
                                         THEN "Hello you!"
                                         ELSE "Hello World!"))>>, 200),
     effects |-> <<>>]

\* def welcome_message(request): the function body, lines 6-8. It reads
\* nothing of the request, returns Response(data) and does nothing else.
welcome_message(request) ==
    [response |-> Response(WelcomeData, 200), effects |-> <<>>]

\* The methods given to @api_view, views.py line 5.
api_view_methods_with_post == {"GET", "POST"}

api_view_methods == {"GET"}

\* str.lower() on the method names used.
Lower(m) ==
    CASE m = "GET" -> "get"
      [] m = "POST" -> "post"
      [] m = "DELETE" -> "delete"
      [] m = "HEAD" -> "head"
      [] m = "OPTIONS" -> "options"
      [] OTHER -> m

http_method_names_any == {Lower(m) : m \in Methods}

\* api_view: WrappedAPIView.http_method_names = the given methods and
\* "options", lower-cased.
http_method_names == {Lower(m) : m \in api_view_methods} \cup {"options"}

\* The parsers of the view, as its metadata lists them.
parser_media_types ==
    <<"application/json", "application/x-www-form-urlencoded",
      "multipart/form-data">>

\* APIView.options: SimpleMetadata.determine_metadata, status 200.
options(request) ==
    Response(<<Member("name", Str("Welcome Message")),
               Member("description", Str(WelcomeDoc)),
               Member("renders",
                      List([i \in 1..Len(renderer_classes) |->
                               IF renderer_classes[i].name = JSONRenderer.name
                               THEN "application/json" ELSE "text/html"])),
               Member("parses", List(parser_media_types))>>, 200)

Detail(text) == <<Member("detail", Str(text))>>

\* exception_handler: the response of an exception raised while dispatching.
\* AuthenticationFailed is answered 403, not 401, because the first
\* authenticator (SessionAuthentication) has no WWW-Authenticate header.
exception_response(exc, request) ==
    CASE exc = "Http404" -> Response(Detail("Not found."), 404)
      [] exc = "NotAcceptable" ->
            Response(Detail("Could not satisfy the request Accept header."), 406)
      [] exc = "AuthenticationFailed" ->
            Response(Detail("Invalid basic header."), 403)
      [] exc = "MethodNotAllowed" ->
            Response(Detail("Method \"" \o request.method \o "\" not allowed."),
                     405)

\* perform_authentication: BasicAuthentication raises AuthenticationFailed on
\* a Basic header it cannot decode; without a header nobody is authenticated
\* and the default permission (AllowAny) lets the request pass.
authenticate(request) ==
    IF request.authorization = "" THEN "ok" ELSE "AuthenticationFailed"

\* APIView.dispatch up to the choice of the handler: initial() (content
\* negotiation, then authentication), then the method lookup. "call" means
\* the decorated function is to be called; "respond" carries the response of
\* the wrapper itself.
dispatch(request) ==
    LET sel == select_renderer(request, renderer_classes)
        n   == IF sel.outcome = "ok" THEN sel.neg
               ELSE forced_negotiation(renderer_classes)
        Raise(exc) == [kind |-> "respond", neg |-> n,
                       response |-> exception_response(exc, request)]
    IN  IF sel.outcome # "ok" THEN Raise(sel.outcome)
        ELSE IF authenticate(request) # "ok" THEN Raise(authenticate(request))
        ELSE IF Lower(request.method) \notin http_method_names
             THEN Raise("MethodNotAllowed")
        ELSE IF request.method = "OPTIONS"
             THEN [kind |-> "respond", neg |-> n, response |-> options(request)]
        ELSE [kind |-> "call", neg |-> n, response |-> Response(<<>>, 0)]

-----------------------------------------------------------------------------
(* urls.py *)

\* path("welcome-message/", views.welcome_message, name="welcome-message")
WelcomeRoute ==
    [route |-> WelcomePath, view |-> "welcome_message", name |-> "welcome-message"]

RECURSIVE StripSlash(_)
StripSlash(p) ==
    IF p # <<>> /\ p[Len(p)] = "" THEN StripSlash(SubSeq(p, 1, Len(p) - 1)) ELSE p

route_matches_ignoring_slash(route, p) == StripSlash(route) = StripSlash(p)

\* RoutePattern.match of an endpoint pattern without converters: the whole
\* path equals the route.
route_matches(route, p) == route = p

resolve_catch_all(patterns, p) == patterns[1].view

\* URLResolver.resolve: the first pattern that matches, or Resolver404.
resolve(patterns, p) ==
    LET hits == {i \in 1..Len(patterns) : route_matches(patterns[i].route, p)}
    IN  IF hits = {} THEN "Resolver404"
        ELSE patterns[CHOOSE i \in hits : \A j \in hits : i <= j].view

\* The answer to Resolver404: Django's own "Not Found" page.
NotFoundPage ==
    [status |-> 404, content_type |-> "text/html; charset=utf-8",
     body |-> <<Markup("<h1>Not Found</h1>")>>]

-----------------------------------------------------------------------------
(* Serving a request *)

NoSnap == [req |-> NoRequest, resp |-> NoResponse]

Init ==
    /\ urlpatterns = <<WelcomeRoute>>
    /\ sideEffects = <<>>
    /\ pc = [w \in Workers |-> "idle"]
    /\ req = [w \in Workers |-> NoRequest]
    /\ neg = [w \in Workers |-> NoNegotiation]
    /\ resp = [w \in Workers |-> NoResponse]
    /\ snap = NoSnap

\* The server hands request r to worker w and the router resolves its path:
\* the path alone decides. The registered callable is called next, or the
\* request is answered 404.
Receive(w, r) ==
    /\ pc[w] = "idle"
    /\ req' = [req EXCEPT ![w] = r]
    /\ IF resolve(urlpatterns, r.path) = "Resolver404"
       THEN /\ pc' = [pc EXCEPT ![w] = "done"]
            /\ resp' = [resp EXCEPT ![w] = NotFoundPage]
       ELSE /\ pc' = [pc EXCEPT ![w] = "view"]
            /\ UNCHANGED resp
    /\ UNCHANGED <<urlpatterns, sideEffects, neg, snap>>

\* The callable registered in urlpatterns, views.welcome_message, is what
\* api_view returned: WrappedAPIView.as_view(). It runs dispatch and either
\* answers itself or goes on to call the decorated function.
View(w) ==
    /\ pc[w] = "view"
    /\ \E d \in {dispatch(req[w])} :
           /\ neg' = [neg EXCEPT ![w] = d.neg]
           /\ IF d.kind = "call"
              THEN /\ pc' = [pc EXCEPT ![w] = "handler"]
                   /\ UNCHANGED resp
              ELSE /\ pc' = [pc EXCEPT ![w] = "done"]
                   /\ \E m \in Masks :
                        resp' = [resp EXCEPT ![w] =
                                    Rendered(d.response, d.neg, [mask |-> m])]
    /\ UNCHANGED <<urlpatterns, sideEffects, req, snap>>

HandlerSerialised(w) ==
    /\ pc[w] = "handler"
    /\ \A v \in Workers \ {w} : pc[v] # "handler"
    /\ LET out == welcome_message(req[w])
       IN  /\ sideEffects' = sideEffects \o out.effects
           /\ \E m \in Masks :
                resp' = [resp EXCEPT ![w] =
                            Rendered(out.response, neg[w], [mask |-> m])]
    /\ pc' = [pc EXCEPT ![w] = "done"]
    /\ UNCHANGED <<urlpatterns, req, neg, snap>>

\* The body of welcome_message runs, and the response it returns is rendered
\* by the renderer negotiated for this request.
Handler(w) ==
    /\ pc[w] = "handler"
    /\ LET out == welcome_message(req[w])
       IN  /\ sideEffects' = sideEffects \o out.effects
           /\ \E m \in Masks :
                resp' = [resp EXCEPT ![w] =
                            Rendered(out.response, neg[w], [mask |-> m])]
    /\ pc' = [pc EXCEPT ![w] = "done"]
    /\ UNCHANGED <<urlpatterns, req, neg, snap>>

\* The response is sent; the worker is free again.
Send(w) ==
    /\ pc[w] = "done"
    /\ pc' = [pc EXCEPT ![w] = "idle"]
    /\ req' = [req EXCEPT ![w] = NoRequest]
    /\ neg' = [neg EXCEPT ![w] = NoNegotiation]
    /\ resp' = [resp EXCEPT ![w] = NoResponse]
    /\ UNCHANGED <<urlpatterns, sideEffects, snap>>

\* The observer keeps a finished exchange of GET welcome-message/ to compare
\* later ones with.
Remember(w) ==
    /\ pc[w] = "done"
    /\ req[w].method = "GET"
    /\ req[w].path = WelcomePath
    /\ snap' = [req |-> req[w], resp |-> resp[w]]
    /\ UNCHANGED <<urlpatterns, sideEffects, pc, req, neg, resp>>

\* One worker serving one request after the other, any request at all.
Next ==
    \/ \E r \in Requests : Receive(1, r)
    \/ View(1)
    \/ Handler(1)
    \/ Send(1)
    \/ Remember(1)

Spec == Init /\ [][Next]_vars

\* All workers serving requests concurrently, their steps interleaved.
NextConc ==
    \/ \E w \in Workers : \E r \in ConcRequests : Receive(w, r)
    \/ \E w \in Workers : View(w)
    \/ \E w \in Workers : Handler(w)
    \/ \E w \in Workers : Send(w)

SpecConc == Init /\ [][NextConc]_vars

-----------------------------------------------------------------------------
(* What a client sees: parsing a body as JSON *)

ParseFail == [ok |-> FALSE, val |-> Str(""), next |-> 0]

TokAt(toks, i) == IF i \in 1..Len(toks) THEN toks[i] ELSE Punct("EOF")

\* The items of a list, from the first item at i to the closing bracket.
RECURSIVE ParseItems(_, _, _)
ParseItems(toks, i, acc) ==
    IF TokAt(toks, i).t # "str" THEN ParseFail
    ELSE LET acc2 == Append(acc, TokAt(toks, i).v)
         IN  IF TokAt(toks, i + 1) = Punct(",") THEN ParseItems(toks, i + 2, acc2)
             ELSE IF TokAt(toks, i + 1) = Punct("]")
             THEN [ok |-> TRUE, val |-> List(acc2), next |-> i + 2]
             ELSE ParseFail

ParseValue(toks, i) ==
    IF TokAt(toks, i).t = "str"
    THEN [ok |-> TRUE, val |-> Str(TokAt(toks, i).v), next |-> i + 1]
    ELSE IF TokAt(toks, i) = Punct("[")
    THEN IF TokAt(toks, i + 1) = Punct("]")
         THEN [ok |-> TRUE, val |-> List(<<>>), next |-> i + 2]
         ELSE ParseItems(toks, i + 1, <<>>)
    ELSE ParseFail

\* The members of an object, from the first key at i to the closing brace.
RECURSIVE ParseMembers(_, _, _)
ParseMembers(toks, i, acc) ==
    IF TokAt(toks, i).t # "str" \/ TokAt(toks, i + 1) # Punct(":")
    THEN [ok |-> FALSE, data |-> <<>>]
    ELSE LET v == ParseValue(toks, i + 2)
             acc2 == Append(acc, Member(TokAt(toks, i).v, v.val))
         IN  IF ~v.ok THEN [ok |-> FALSE, data |-> <<>>]
             ELSE IF TokAt(toks, v.next) = Punct(",")
             THEN ParseMembers(toks, v.next + 1, acc2)
             ELSE IF TokAt(toks, v.next) = Punct("}") /\ v.next = Len(toks)
             THEN [ok |-> TRUE, data |-> acc2]
             ELSE [ok |-> FALSE, data |-> <<>>]

\* json.loads of a body: whitespace between tokens is skipped; anything that
\* is not one JSON object fails.
ParseJSON(body) ==
    LET toks == SelectSeq(body, LAMBDA t : t.t # "ws")
    IN  IF TokAt(toks, 1) # Punct("{") THEN [ok |-> FALSE, data |-> <<>>]
        ELSE IF TokAt(toks, 2) = Punct("}") /\ Len(toks) = 2
        THEN [ok |-> TRUE, data |-> <<>>]
        ELSE ParseMembers(toks, 2, <<>>)

\* The object {"message": "Hello World!"}: that key, that value, nothing else.
IsWelcomePayload(body) ==
    LET p == ParseJSON(body)
    IN  /\ p.ok
        /\ Len(p.data) = 1
        /\ p.data[1].key = "message"
        /\ p.data[1].value = Str("Hello World!")

\* The welcome text occurs somewhere in the body.
CarriesWelcome(body) == \E i \in 1..Len(body) : body[i] = StrTok("Hello World!")

IsJson(content_type) == content_type = "application/json"

Done(w) == pc[w] = "done"

ToWelcome(w) == req[w].path = WelcomePath

\* The request leaves the choice of the renderer to the defaults and asks for
\* nothing but JSON: no format parameter, and an Accept header that is absent
\* or lists only application/json and */* ranges.
AsksJson(r) ==
    /\ r.format = ""
    /\ \A i \in 1..Len(r.accept) :
          /\ r.accept[i].main \in {"application", "*"}
          /\ r.accept[i].sub \in {"json", "*"}

\* The request asks for something the endpoint can render: no format
\* parameter, and an Accept header that is absent or lists a range that
\* application/json or text/html falls in.
AsksRenderable(r) ==
    /\ r.format = ""
    /\ \/ r.accept = <<>>
       \/ \E i \in 1..Len(r.accept) :
             <<r.accept[i].main, r.accept[i].sub>> \in
                {<<"*", "*">>, <<"application", "json">>, <<"application", "*">>,
                 <<"text", "html">>, <<"text", "*">>}

\* The request carries no credentials the framework rejects.
NoBadCredentials(r) == r.authorization = ""

-----------------------------------------------------------------------------
(* Claims *)

\* C1 as stated: every GET welcome-message/ request is answered 200 with a
\* body that parses to exactly {"message": "Hello World!"}.
C1_EveryGetIsWelcomed ==
    \A w \in Workers :
        Done(w) /\ req[w].method = "GET" /\ ToWelcome(w)
            => resp[w].status = 200 /\ IsWelcomePayload(resp[w].body)

\* C1 amended: every GET welcome-message/ request that asks for nothing but
\* JSON and carries no rejected credentials is answered 200 with a body that
\* parses to exactly {"message": "Hello World!"}; and whenever the body of
\* welcome_message runs, the response it gives has status 200 and carries the
\* welcome text.
C1_JsonGetIsWelcomed ==
    /\ [](\A w \in Workers :
            Done(w) /\ req[w].method = "GET" /\ ToWelcome(w)
            /\ AsksJson(req[w]) /\ NoBadCredentials(req[w])
                => resp[w].status = 200 /\ IsWelcomePayload(resp[w].body))
    /\ [][\A w \in Workers :
            pc[w] = "handler" /\ pc'[w] = "done"
                => resp'[w].status = 200 /\ CarriesWelcome(resp'[w].body)]_vars

C1_Witness ==
    /\ Done(1) /\ req[1].method = "GET" /\ ToWelcome(1)
    /\ req[1].accept = <<JsonIndentType>>
    /\ req[1].format = "" /\ req[1].authorization = ""
    /\ resp[1].status = 200 /\ IsWelcomePayload(resp[1].body)

\* C2 as stated: every request to welcome-message/ with a method other than
\* GET is answered 405, never with the welcome payload or a 2xx status.
C2_NonGetIs405 ==
    \A w \in Workers :
        Done(w) /\ ToWelcome(w) /\ req[w].method # "GET"
            => /\ resp[w].status = 405
               /\ ~CarriesWelcome(resp[w].body)

\* C2 amended: a request to welcome-message/ with a method other than GET is
\* never answered with the welcome payload; with a method other than GET and
\* OPTIONS it is never answered 2xx, and it is answered 405 when it asks for
\* something renderable and carries no rejected credentials; OPTIONS under
\* the same conditions is answered 200 with the view's metadata.
C2_NonGetNeverWelcomed ==
    \A w \in Workers :
        Done(w) /\ ToWelcome(w) /\ req[w].method # "GET"
            => /\ ~CarriesWelcome(resp[w].body)
               /\ req[w].method # "OPTIONS" => resp[w].status \notin 200..299
               /\ AsksRenderable(req[w]) /\ NoBadCredentials(req[w])
                    => resp[w].status =
                          (IF req[w].method = "OPTIONS" THEN 200 ELSE 405)

C2_Witness ==
    /\ Done(1) /\ ToWelcome(1) /\ req[1].method = "DELETE"
    /\ AsksRenderable(req[1]) /\ NoBadCredentials(req[1])
    /\ resp[1].status = 405

\* C3: a GET request to any path other than exactly welcome-message/, the
\* path without its trailing slash included, is answered 404, and only
\* requests to exactly welcome-message/ get past the router.
C3_OtherPathIs404 ==
    \A w \in Workers :
        /\ Done(w) /\ req[w].method = "GET" /\ ~ToWelcome(w)
              => resp[w].status = 404
        /\ pc[w] \in {"view", "handler"} => ToWelcome(w)

C3_Witness ==
    /\ Done(1) /\ req[1].method = "GET" /\ req[1].path = NoSlashPath
    /\ resp[1].status = 404

C6_RouterChecksMethod ==
    \A w \in Workers : pc[w] = "view" => req[w].method = "GET"

\* C6 amended: the router dispatches on the path alone, so the callable
\* registered in urlpatterns is called for every method; the GET-only
\* constraint is enforced inside that callable, by the api_view wrapper: the
\* body of welcome_message runs only for GET requests to welcome-message/.
C6_WrapperChecksMethod ==
    \A w \in Workers :
        /\ pc[w] = "view" => ToWelcome(w)
        /\ pc[w] = "handler" => req[w].method = "GET" /\ ToWelcome(w)

C6_Witness == pc[1] = "view" /\ req[1].method = "POST"

\* C7 as stated: two GET welcome-message/ requests that differ only in query
\* string, headers or body receive the same status and the same body.
C7_IgnoresQueryHeadersBody ==
    Done(1) /\ req[1].method = "GET" /\ ToWelcome(1) /\ snap # NoSnap
        => /\ snap.resp.status = resp[1].status
           /\ snap.resp.body = resp[1].body

\* C7 amended: two GET welcome-message/ requests that agree on the Accept
\* header, the format parameter and the Authorization header, and differ only
\* in the rest of the query string, the other headers or the body, receive
\* the same status and content type, and the same body whenever the response
\* is rendered as JSON.
C7_IgnoresUnreadParts ==
    (/\ Done(1) /\ req[1].method = "GET" /\ ToWelcome(1) /\ snap # NoSnap
     /\ snap.req.accept = req[1].accept
     /\ snap.req.format = req[1].format
     /\ snap.req.authorization = req[1].authorization)
        => /\ snap.resp.status = resp[1].status
           /\ snap.resp.content_type = resp[1].content_type
           /\ IsJson(resp[1].content_type) => snap.resp.body = resp[1].body

C7_Witness ==
    /\ Done(1) /\ req[1].method = "GET" /\ ToWelcome(1)
    /\ snap.req.extra = "query" /\ req[1].extra = "body"
    /\ snap.req.accept = req[1].accept
    /\ snap.req.format = req[1].format
    /\ snap.req.authorization = req[1].authorization
    /\ resp[1].status = 200 /\ IsJson(resp[1].content_type)

\* C8: serving requests, whatever their outcome, leaves the routing table as
\* it was at start-up and makes no log record and no external call.
C8_NoSideEffects ==
    /\ urlpatterns = <<WelcomeRoute>>
    /\ sideEffects = <<>>

C8_Witness ==
    /\ snap # NoSnap /\ snap.resp.status = 200
    /\ Done(1) /\ resp[1].status = 405

\* What a request is answered when it is served alone: the router, then the
\* wrapper, then the function, one after the other.
ServedAlone(r) ==
    IF resolve(<<WelcomeRoute>>, r.path) = "Resolver404" THEN {NotFoundPage}
    ELSE LET d == dispatch(r)
             answer == IF d.kind = "call" THEN welcome_message(r).response
                       ELSE d.response
         IN  {Rendered(answer, d.neg, [mask |-> m]) : m \in Masks}

\* C9: under every interleaving of concurrently served requests, each
\* request receives a response it could receive if served alone, and no
\* request in progress ever waits for another: its next step can be taken.
C9_ConcurrentAsAlone ==
    \A w \in Workers :
        /\ Done(w) => resp[w] \in ServedAlone(req[w])
        /\ pc[w] = "view" => ENABLED View(w)
        /\ pc[w] = "handler" => ENABLED Handler(w)
        /\ pc[w] = "done" => ENABLED Send(w)

C9_Witness ==
    /\ pc[1] = "handler" /\ pc[2] = "handler"
    /\ neg[1] # neg[2]

\* C10: the path is decided before the method: a request to any path other
\* than welcome-message/ is answered 404 whatever its method, and 405 is
\* given only to requests whose path is exactly welcome-message/.
C10_PathBeforeMethod ==
    \A w \in Workers :
        Done(w) => /\ ~ToWelcome(w) => resp[w].status = 404
                   /\ resp[w].status = 405 => ToWelcome(w)

C10_Witness ==
    /\ Done(1) /\ req[1].method = "POST" /\ req[1].path = UnknownPath
    /\ resp[1].status = 404

====
